---- MODULE Spec2Model ----
(***************************************************************************)
(* Model of backend1/main.py: the Pipeline Parser API.                     *)
(*                                                                         *)
(* parse_pipeline validates the submitted nodes and edges, builds a        *)
(* networkx DiGraph and reports node/edge counts, DAG status and a cycle.  *)
(* The networkx calls are modelled by what they compute on the DiGraph     *)
(* data structure: insertion-ordered node and adjacency dictionaries,      *)
(* Kahn's topological generations for is_directed_acyclic_graph, and the   *)
(* edge-DFS with active-path bookkeeping for find_cycle.                   *)
(***************************************************************************)
EXTENDS Integers, Sequences, FiniteSets

VARIABLES pipeline, G, response, route, first

vars == <<pipeline, G, response, route, first>>

(***************************************************************************)
(* Bounds of the model.                                                    *)
(***************************************************************************)
MaxNodes == 3
MaxEdges == 3
MaxCallNodes == 2
MaxCallEdges == 1

Ids == {"A", "B", "C"}

(***************************************************************************)
(* Data models (Node, Edge, Pipeline).  The optional fields type and data  *)
(* are never read by the handlers and are left out.                        *)
(***************************************************************************)
Node == [id : Ids]

Edge == [source : Ids, target : Ids]

SeqsUpTo(S, n) == UNION {[1..k -> S] : k \in 0..n}

Pipeline(maxN, maxE) == [nodes : SeqsUpTo(Node, maxN), edges : SeqsUpTo(Edge, maxE)]

Range(s) == {s[i] : i \in DOMAIN s}

(***************************************************************************)
(* networkx.DiGraph: _node and _adj are insertion-ordered dictionaries.    *)
(* nodes is the key order of _node; adj[u] is the key order of _adj[u].    *)
(***************************************************************************)
EmptyDiGraph == [nodes |-> <<>>, adj |-> [n \in Ids |-> <<>>]]

SharedDiGraph == G

NewDiGraph == EmptyDiGraph

add_node(g, n) ==
    IF n \in Range(g.nodes) THEN g ELSE [g EXCEPT !.nodes = Append(@, n)]

RECURSIVE add_nodes_from(_, _)
add_nodes_from(g, ids) ==
    IF ids = <<>> THEN g
    ELSE add_nodes_from(add_node(g, Head(ids)), Tail(ids))

add_edge_noloop(g, u, v) ==
    LET g2 == add_node(add_node(g, u), v)
    IN  IF v \in Range(g2.adj[u]) \/ u = v THEN g2
        ELSE [g2 EXCEPT !.adj[u] = Append(@, v)]

add_edge(g, u, v) ==
    LET g2 == add_node(add_node(g, u), v)
    IN  IF v \in Range(g2.adj[u]) THEN g2
        ELSE [g2 EXCEPT !.adj[u] = Append(@, v)]

RECURSIVE add_edges_from(_, _)
add_edges_from(g, ebunch) ==
    IF ebunch = <<>> THEN g
    ELSE add_edges_from(add_edge(g, Head(ebunch)[1], Head(ebunch)[2]), Tail(ebunch))

RECURSIVE SumLen(_, _)
SumLen(g, ns) ==
    IF ns = <<>> THEN 0 ELSE Len(g.adj[Head(ns)]) + SumLen(g, Tail(ns))

number_of_nodes_touched(g) ==
    Cardinality({n \in Range(g.nodes) :
                    g.adj[n] # <<>> \/ \E m \in Range(g.nodes) : n \in Range(g.adj[m])})

number_of_nodes(g) == Len(g.nodes)

number_of_edges(g) == SumLen(g, g.nodes)

in_degree(g, v) == Cardinality({u \in Range(g.nodes) : v \in Range(g.adj[u])})

(***************************************************************************)
(* networkx.topological_generations (Kahn): repeatedly remove the nodes of *)
(* in-degree zero; what is left of indegree_map at the end lies on or      *)
(* behind a cycle.  indegree_map[v] = 0 stands for "v not in the map".     *)
(***************************************************************************)
RECURSIVE topological_generations(_, _, _)
topological_generations(g, indegree_map, zero_indegree) ==
    IF zero_indegree = {} THEN indegree_map
    ELSE LET this_generation == zero_indegree
             next_map == [c \in Ids |->
                            indegree_map[c]
                              - Cardinality({n \in this_generation : c \in Range(g.adj[n])})]
             next_zero == {c \in Ids : indegree_map[c] > 0 /\ next_map[c] = 0}
         IN  topological_generations(g, next_map, next_zero)

has_cycle(g) ==
    LET indegree_map == [v \in Ids |-> IF v \in Range(g.nodes) THEN in_degree(g, v) ELSE 0]
        zero_indegree == {v \in Range(g.nodes) : in_degree(g, v) = 0}
        left == topological_generations(g, indegree_map, zero_indegree)
    IN  \E v \in Ids : left[v] > 0

is_dag_has_source(g) == g.nodes = <<>> \/ \E v \in Range(g.nodes) : in_degree(g, v) = 0

is_dag_nonempty(g) == g.nodes # <<>> /\ ~has_cycle(g)

is_directed_acyclic_graph(g) == ~has_cycle(g)

(***************************************************************************)
(* networkx.edge_dfs(G, start_node): the edges in the order the generator  *)
(* yields them.  it[n] is how far the iterator over G.edges(n) has         *)
(* advanced; the iterator of a node is created once and kept.              *)
(***************************************************************************)
RECURSIVE edge_dfs_loop(_, _, _, _, _)
edge_dfs_loop(g, stack, it, visited_edges, out) ==
    IF stack = <<>> THEN out
    ELSE LET current_node == stack[Len(stack)]
         IN  IF it[current_node] >= Len(g.adj[current_node])
             THEN edge_dfs_loop(g, SubSeq(stack, 1, Len(stack) - 1), it, visited_edges, out)
             ELSE LET edge == <<current_node, g.adj[current_node][it[current_node] + 1]>>
                      it2 == [it EXCEPT ![current_node] = @ + 1]
                  IN  IF edge \in visited_edges
                      THEN edge_dfs_loop(g, stack, it2, visited_edges, out)
                      ELSE edge_dfs_loop(g, Append(stack, edge[2]), it2,
                                         visited_edges \cup {edge}, Append(out, edge))

edge_dfs(g, start_node) ==
    edge_dfs_loop(g, <<start_node>>, [n \in Ids |-> 0], {}, <<>>)

(***************************************************************************)
(* find_cycle: the backtracking step that pops the active path until its   *)
(* last head is the tail of the new edge.  set.remove of a missing element *)
(* raises KeyError, kept as the flag err.                                  *)
(***************************************************************************)
RECURSIVE pop_until(_, _, _, _)
pop_until(edges, active_nodes, tail, err) ==
    IF edges = <<>> THEN [edges |-> <<>>, active_nodes |-> {tail}, err |-> err]
    ELSE LET popped_head == edges[Len(edges)][2]
             rest == SubSeq(edges, 1, Len(edges) - 1)
             active2 == active_nodes \ {popped_head}
             err2 == err \/ popped_head \notin active_nodes
         IN  IF rest # <<>> /\ rest[Len(rest)][2] = tail
             THEN [edges |-> rest, active_nodes |-> active2, err |-> err2]
             ELSE pop_until(rest, active2, tail, err2)

(***************************************************************************)
(* find_cycle: the inner loop over the edges of one edge_dfs.  st holds    *)
(* edges, seen, active_nodes, previous_head (a set: empty for None),       *)
(* cycle, final_node and err.                                              *)
(***************************************************************************)
RECURSIVE scan_edges(_, _, _)
scan_edges(es, explored, st) ==
    IF es = <<>> \/ st.err THEN st
    ELSE LET edge == Head(es)
             tail == edge[1]
             head == edge[2]
         IN  IF head \in explored THEN scan_edges(Tail(es), explored, st)
             ELSE LET back == st.previous_head # {} /\ tail \notin st.previous_head
                      p == IF back THEN pop_until(st.edges, st.active_nodes, tail, FALSE)
                           ELSE [edges |-> st.edges, active_nodes |-> st.active_nodes,
                                 err |-> FALSE]
                      edges2 == Append(p.edges, edge)
                  IN  IF p.err THEN [st EXCEPT !.err = TRUE]
                      ELSE IF head \in p.active_nodes
                      THEN [st EXCEPT !.edges = edges2, !.active_nodes = p.active_nodes,
                                      !.cycle = edges2, !.final_node = {head}]
                      ELSE scan_edges(Tail(es), explored,
                                      [st EXCEPT !.edges = edges2,
                                                 !.seen = @ \cup {head},
                                                 !.active_nodes = p.active_nodes \cup {head},
                                                 !.previous_head = {head}])

(***************************************************************************)
(* find_cycle: the outer loop over the start nodes, in node order.         *)
(* Result: cycle (empty when none was found), final_node, err.             *)
(***************************************************************************)
RECURSIVE find_cycle_from(_, _, _)
find_cycle_from(g, starts, explored) ==
    IF starts = <<>> THEN [cycle |-> <<>>, final_node |-> {}, err |-> FALSE]
    ELSE LET start_node == Head(starts)
         IN  IF start_node \in explored THEN find_cycle_from(g, Tail(starts), explored)
             ELSE LET st == scan_edges(edge_dfs(g, start_node), explored,
                                       [edges |-> <<>>, seen |-> {start_node},
                                        active_nodes |-> {start_node},
                                        previous_head |-> {}, cycle |-> <<>>,
                                        final_node |-> {}, err |-> FALSE])
                  IN  IF st.err \/ st.cycle # <<>>
                      THEN [cycle |-> st.cycle, final_node |-> st.final_node, err |-> st.err]
                      ELSE find_cycle_from(g, Tail(starts), explored \cup st.seen)

(***************************************************************************)
(* find_cycle: drop the edges that lead to the cycle (cycle[i:], where i   *)
(* is the first edge whose tail is final_node).                            *)
(***************************************************************************)
RECURSIVE trim_cycle(_, _)
trim_cycle(cycle, final_node) ==
    IF cycle = <<>> THEN <<>>
    ELSE IF Head(cycle)[1] \in final_node THEN cycle
    ELSE IF Len(cycle) = 1 THEN cycle
    ELSE trim_cycle(Tail(cycle), final_node)

(***************************************************************************)
(* networkx.find_cycle(G): raised is "" on return, "NetworkXNoCycle" when  *)
(* the for loop over the start nodes ends without a cycle.                 *)
(***************************************************************************)
find_cycle_result(r) ==
    IF r.err THEN [raised |-> "KeyError", cycle |-> <<>>]
    ELSE IF r.cycle = <<>> THEN [raised |-> "NetworkXNoCycle", cycle |-> <<>>]
    ELSE [raised |-> "", cycle |-> trim_cycle(r.cycle, r.final_node)]

find_cycle_untrimmed(g) ==
    LET r == find_cycle_from(g, g.nodes, {})
    IN  IF r.cycle = <<>> THEN [raised |-> "NetworkXNoCycle", cycle |-> <<>>]
        ELSE [raised |-> "", cycle |-> r.cycle]

find_cycle_first_source(g) ==
    find_cycle_result(find_cycle_from(g, SubSeq(g.nodes, 1, 1), {}))

find_cycle(g) == find_cycle_result(find_cycle_from(g, g.nodes, {}))

(***************************************************************************)
(* parse_pipeline, line by line.                                           *)
(***************************************************************************)
node_ids_of(p) == [i \in DOMAIN p.nodes |-> p.nodes[i].id]

no_duplicates(node_ids) == FALSE

has_duplicates(node_ids) == Len(node_ids) # Cardinality(Range(node_ids))

RECURSIVE invalid_edges_first_only(_, _)
invalid_edges_first_only(edges, node_id_set) ==
    IF edges = <<>> THEN <<>>
    ELSE IF Head(edges).source \notin node_id_set \/ Head(edges).target \notin node_id_set
         THEN <<[source |-> Head(edges).source, target |-> Head(edges).target]>>
         ELSE invalid_edges_first_only(Tail(edges), node_id_set)

RECURSIVE invalid_edges_of(_, _)
invalid_edges_of(edges, node_id_set) ==
    IF edges = <<>> THEN <<>>
    ELSE LET edge == Head(edges)
             rest == invalid_edges_of(Tail(edges), node_id_set)
         IN  IF edge.source \notin node_id_set \/ edge.target \notin node_id_set
             THEN <<[source |-> edge.source, target |-> edge.target]>> \o rest
             ELSE rest

build_graph(g0, p) ==
    add_edges_from(add_nodes_from(g0, node_ids_of(p)),
                   [i \in DOMAIN p.edges |-> <<p.edges[i].source, p.edges[i].target>>])

(***************************************************************************)
(* The handler's outcome on pipeline p: the response body and the graph    *)
(* object it leaves behind (none is built on the two error paths).  An     *)
(* exception other than NetworkXNoCycle is not caught and becomes the      *)
(* framework's 500 response.                                               *)
(***************************************************************************)
parse_outcome(p, g_old) ==
    LET node_ids == node_ids_of(p)
        node_id_set == Range(node_ids)
        invalid_edges == invalid_edges_of(p.edges, node_id_set)
    IN  IF has_duplicates(node_ids)
        THEN [response |-> [error |-> "Duplicate node IDs found"], G |-> g_old]
        ELSE IF invalid_edges # <<>>
        THEN [response |-> [error |-> "Invalid edges found: edges refer to nonexistent nodes",
                            invalid_edges |-> invalid_edges],
              G |-> g_old]
        ELSE LET g == build_graph(NewDiGraph, p)
                 num_nodes == number_of_nodes(g)
                 num_edges == number_of_edges(g)
                 is_dag == is_directed_acyclic_graph(g)
                 found == IF is_dag THEN [raised |-> "", cycle |-> <<>>] ELSE find_cycle(g)
                 cycle_path == IF found.raised = "NetworkXNoCycle" THEN <<>> ELSE found.cycle
             IN  IF found.raised = "KeyError"
                 THEN [response |-> [detail |-> "Internal Server Error"], G |-> g]
                 ELSE [response |-> [num_nodes |-> num_nodes, num_edges |-> num_edges,
                                     is_dag |-> is_dag, cycle_path |-> cycle_path],
                       G |-> g]

(***************************************************************************)
(* State.  pipeline is the request body a client holds; G is the graph     *)
(* object of the latest construction; response is the latest response      *)
(* body and route the endpoint that produced it ("" before any request,    *)
(* "other" for a parse request with another client's body).  first is a    *)
(* history of the calls made with pipeline: the response to the first of   *)
(* them, whether a parse request with another body was handled since, and *)
(* whether pipeline was submitted again after such a request.              *)
(***************************************************************************)
NoResponse == [status |-> "none"]

NoHistory == [reply |-> {}, between |-> FALSE, again |-> FALSE]

OtherPipelines ==
    {[nodes |-> IF e.source = e.target THEN <<[id |-> e.source]>>
                ELSE <<[id |-> e.source], [id |-> e.target]>>,
      edges |-> <<e>>] : e \in Edge}

InitWith(P) ==
    /\ pipeline \in P
    /\ G = EmptyDiGraph
    /\ response = NoResponse
    /\ route = ""
    /\ first = NoHistory

Init == InitWith(Pipeline(MaxNodes, MaxEdges))

InitCalls == InitWith(Pipeline(MaxCallNodes, MaxCallEdges))

health_check ==
    /\ response' = [status |-> "ok"]
    /\ route' = "/"
    /\ UNCHANGED <<pipeline, G>>

parse_pipeline(p, r) ==
    LET out == parse_outcome(p, G)
    IN  /\ response' = out.response
        /\ G' = out.G
        /\ route' = r
        /\ UNCHANGED pipeline

(***************************************************************************)
(* One client, one request body.                                           *)
(***************************************************************************)
Parse == parse_pipeline(pipeline, "/pipelines/parse") /\ UNCHANGED first

Health == health_check /\ UNCHANGED first

Next == Parse \/ Health

Spec == Init /\ [][Next]_vars

(***************************************************************************)
(* Repeated calls with the same body, other requests in between.           *)
(***************************************************************************)
ParseAgain ==
    /\ parse_pipeline(pipeline, "/pipelines/parse")
    /\ first' = IF first.reply = {} THEN [first EXCEPT !.reply = {response'}]
                ELSE [first EXCEPT !.again = first.between]

ParseOther ==
    /\ \E q \in OtherPipelines : parse_pipeline(q, "other")
    /\ first' = IF first.reply = {} THEN first ELSE [first EXCEPT !.between = TRUE]

NextCalls == ParseAgain \/ ParseOther \/ Health

SpecCalls == InitCalls /\ [][NextCalls]_vars

(***************************************************************************)
(* Vocabulary of the properties, stated on the submitted pipeline itself.  *)
(***************************************************************************)
Handled == route = "/pipelines/parse"

Success == Handled /\ DOMAIN response = {"num_nodes", "num_edges", "is_dag", "cycle_path"}

UniqueIds(p) ==
    \A i, j \in DOMAIN p.nodes : p.nodes[i].id = p.nodes[j].id => i = j

SubmittedIds(p) == {p.nodes[i].id : i \in DOMAIN p.nodes}

Offending(p, e) == e.source \notin SubmittedIds(p) \/ e.target \notin SubmittedIds(p)

Validated(p) == UniqueIds(p) /\ \A i \in DOMAIN p.edges : ~Offending(p, p.edges[i])

Arcs(p) == {<<p.edges[i].source, p.edges[i].target>> : i \in DOMAIN p.edges}

HasSelfLoop(p) == \E i \in DOMAIN p.edges : p.edges[i].source = p.edges[i].target

RECURSIVE TransitiveClosure(_)
TransitiveClosure(R) ==
    LET Joined == {<<q[1][1], q[2][2]>> : q \in {r \in R \X R : r[1][2] = r[2][1]}}
    IN  IF Joined \subseteq R THEN R ELSE TransitiveClosure(R \cup Joined)

HasDirectedCycle(p) == \E n \in Ids : <<n, n>> \in TransitiveClosure(Arcs(p))

IsolatedNode(p) ==
    \E n \in SubmittedIds(p) : \A a \in Arcs(p) : a[1] # n /\ a[2] # n

ClosedWalk(c) ==
    /\ c # <<>>
    /\ \A i \in 1..(Len(c) - 1) : c[i][2] = c[i + 1][1]
    /\ c[Len(c)][2] = c[1][1]

ThreeCycle(p) ==
    \E a, b, c \in Ids :
        /\ a # b /\ b # c /\ a # c
        /\ Arcs(p) = {<<a, b>>, <<b, c>>, <<c, a>>}

(***************************************************************************)
(* C1: for every validated pipeline, num_edges equals the number of edges  *)
(* submitted, parallel edges counted separately.                           *)
(***************************************************************************)
C1_NumEdgesCountsSubmitted ==
    Handled /\ Validated(pipeline) =>
        Success /\ response.num_edges = Len(pipeline.edges)

(***************************************************************************)
(* C2: when some node id appears more than once, the response is the       *)
(* duplicate-ids error and nothing else, whatever the edges are.           *)
(***************************************************************************)
C2_DuplicateIdsErrorOnly ==
    Handled /\ ~UniqueIds(pipeline) => response = [error |-> "Duplicate node IDs found"]

C2_Witness ==
    /\ Handled
    /\ ~UniqueIds(pipeline)
    /\ \E i \in DOMAIN pipeline.edges : Offending(pipeline, pipeline.edges[i])
    /\ response = [error |-> "Duplicate node IDs found"]

(***************************************************************************)
(* C3: with unique ids and at least one dangling edge, the response is the *)
(* invalid-edges error and invalid_edges is exactly the subsequence of the *)
(* submitted edges that have a missing endpoint, in submission order, once *)
(* per occurrence.                                                         *)
(***************************************************************************)
C3_InvalidEdgesExact ==
    LET Bad(e) == Offending(pipeline, e)
    IN  Handled /\ UniqueIds(pipeline) /\ ~Validated(pipeline) =>
            /\ DOMAIN response = {"error", "invalid_edges"}
            /\ response.error = "Invalid edges found: edges refer to nonexistent nodes"
            /\ response.invalid_edges = SelectSeq(pipeline.edges, Bad)

C3_Witness ==
    /\ Handled
    /\ UniqueIds(pipeline)
    /\ DOMAIN response = {"error", "invalid_edges"}
    /\ Len(response.invalid_edges) = 2
    /\ Len(pipeline.edges) = 3
    /\ ~Offending(pipeline, pipeline.edges[1])

(***************************************************************************)
(* C4: for every validated pipeline, is_dag is true exactly when no node   *)
(* reaches itself along one or more submitted edges.                       *)
(***************************************************************************)
C4_IsDagIffAcyclic ==
    Handled /\ Validated(pipeline) =>
        Success /\ (response.is_dag <=> ~HasDirectedCycle(pipeline))

C4_Witness ==
    /\ Success
    /\ ~response.is_dag
    /\ ~HasSelfLoop(pipeline)
    /\ IsolatedNode(pipeline)

(***************************************************************************)
(* C5: whenever is_dag is false, cycle_path is a closed walk of submitted  *)
(* edges; for the 3-node cycle it is exactly its three edges.              *)
(***************************************************************************)
C5_CyclePathClosedWalk ==
    Success /\ ~response.is_dag =>
        /\ ClosedWalk(response.cycle_path)
        /\ \A i \in DOMAIN response.cycle_path : response.cycle_path[i] \in Arcs(pipeline)
        /\ ThreeCycle(pipeline) =>
               /\ Len(response.cycle_path) = 3
               /\ Range(response.cycle_path) = Arcs(pipeline)

C5_Witness ==
    /\ Success
    /\ ~response.is_dag
    /\ ThreeCycle(pipeline)
    /\ Len(response.cycle_path) = 3

(***************************************************************************)
(* C6, as stated: for all pipelines containing a self-loop, the result has *)
(* is_dag false.                                                           *)
(***************************************************************************)
C6_SelfLoopAnyPipeline ==
    Handled /\ HasSelfLoop(pipeline) =>
        "is_dag" \in DOMAIN response /\ ~response.is_dag

(***************************************************************************)
(* C6, amended: for all pipelines that pass both validation checks and     *)
(* contain a self-loop, the result has is_dag false.                       *)
(***************************************************************************)
C6_SelfLoopNotDag ==
    Handled /\ Validated(pipeline) /\ HasSelfLoop(pipeline) =>
        Success /\ ~response.is_dag

C6_Witness ==
    /\ Success
    /\ HasSelfLoop(pipeline)
    /\ ~response.is_dag
    /\ Len(pipeline.nodes) > 1

(***************************************************************************)
(* C7, as stated: for all pipelines with zero edges, for every node list,  *)
(* the result has is_dag true and cycle_path empty.                        *)
(***************************************************************************)
C7_NoEdgesAnyNodeList ==
    Handled /\ pipeline.edges = <<>> =>
        /\ "is_dag" \in DOMAIN response
        /\ response.is_dag
        /\ response.cycle_path = <<>>

(***************************************************************************)
(* C7, amended: for all pipelines with zero edges and unique node ids      *)
(* (the empty node list included), the result has is_dag true and          *)
(* cycle_path empty.                                                       *)
(***************************************************************************)
C7_NoEdgesIsDag ==
    Handled /\ pipeline.edges = <<>> /\ UniqueIds(pipeline) =>
        /\ Success
        /\ response.is_dag
        /\ response.cycle_path = <<>>

C7_Witness ==
    /\ Success
    /\ pipeline.edges = <<>>
    /\ pipeline.nodes = <<>>
    /\ response.is_dag

(***************************************************************************)
(* C8: for every pipeline that passes both checks, num_nodes equals the    *)
(* number of nodes submitted, isolated nodes included.                     *)
(***************************************************************************)
C8_NumNodesCountsSubmitted ==
    Handled /\ Validated(pipeline) =>
        Success /\ response.num_nodes = Len(pipeline.nodes)

C8_Witness ==
    /\ Success
    /\ IsolatedNode(pipeline)
    /\ pipeline.edges # <<>>
    /\ response.num_nodes = 3

(***************************************************************************)
(* C9: every call with the same nodes and edges gets the response the      *)
(* first such call got, whatever was handled in between.                   *)
(***************************************************************************)
C9_SameInputSameResponse ==
    Handled => first.reply = {response}

C9_Witness ==
    /\ Handled
    /\ first.again
    /\ Success
    /\ ~response.is_dag
    /\ first.reply = {response}

(***************************************************************************)
(* C10: in every success result cycle_path is empty exactly when is_dag is *)
(* true, so a failed cycle search never empties it.                        *)
(***************************************************************************)
C10_CyclePathEmptyIffDag ==
    Success => (response.cycle_path = <<>> <=> response.is_dag)

C10_Witness ==
    /\ Success
    /\ ~response.is_dag
    /\ response.cycle_path # <<>>
    /\ \A a \in Arcs(pipeline) : a[1] # pipeline.nodes[1].id

====
